---- MODULE Spec2Model ----
(***************************************************************************)
(* State-machine model of the IR air-conditioner controller in             *)
(* src/whatever.py (class ACController): the intent operations power_on,   *)
(* power_off, set_temperature, set_mode, set_fan_speed, the NEC frame      *)
(* builder send_nec_command, the waveform sender send_raw_code, and the    *)
(* pigpio daemon they drive, seen through the calls the code makes.        *)
(***************************************************************************)
EXTENDS Integers, Sequences, FiniteSets, TLC

(***************************************************************************)
(* State.                                                                  *)
(***************************************************************************)
VARIABLES
    pc,         \* where the (single) calling thread is
    op,         \* the operation called last: [fn, temp, str]
    printed,    \* the message printed last by an intent operation
    outcome,    \* how the last call ended: "none", "running", "returned",
                \* "pigpio.error", "KeyboardInterrupt"
    address,    \* send_nec_command's argument
    command,    \* send_nec_command's argument
    pulses,     \* send_nec_command's local list
    wave_id,    \* send_raw_code's local
    pwm,        \* pigpio: hardware PWM on the pin, [freq, duty]
    waveBuf,    \* pigpio: pulses added and not yet made into a waveform
    waves,      \* pigpio: the created waveforms, a set of [id, wave]
    txBusy,     \* pigpio: a waveform is being transmitted
    txWave,     \* the waveform the current command had transmitted
    hwlog,      \* the carrier and transmission calls of the current command
    prev        \* the frame the latest command handed to the daemon, kept for
                \* comparison: <<>> or <<[op, address, command, pulses, wave]>>

vars == <<pc, op, printed, outcome, address, command, pulses, wave_id,
          pwm, waveBuf, waves, txBusy, txWave, hwlog, prev>>

hwvars == <<pwm, waveBuf, waves, txBusy, txWave, hwlog>>

locals == <<address, command, pulses, wave_id>>

(***************************************************************************)
(* Bounds of the model (not program constants).                            *)
(***************************************************************************)
\* set_temperature is tried with every integer from 16 - TempMargin to
\* 30 + TempMargin.
TempMargin == 2

(***************************************************************************)
(* Program constants.                                                      *)
(***************************************************************************)
gpio_pin == 17
\* Faulty variant: another common carrier.
carrier_freq_36k == 38000 - 2000

carrier_freq == 38000

duty_cycle == 500000
header_mark == 9000
header_space == 4500
bit_mark == 560
one_space == 1690
zero_space == 560
NBits == 8
TempMin == 16
TempMax == 30
TempBase == 16
PowerOnCode == 8
PowerOffCode == 9
DeviceAddress == 0
ByteMax == 255

(***************************************************************************)
(* Strings are sequences of character codes, so that str.lower() is a      *)
(* computation on the characters.                                          *)
(***************************************************************************)
s_cool == <<99, 111, 111, 108>>
s_heat == <<104, 101, 97, 116>>
s_fan == <<102, 97, 110>>
s_dry == <<100, 114, 121>>
s_auto == <<97, 117, 116, 111>>
s_low == <<108, 111, 119>>
s_medium == <<109, 101, 100, 105, 117, 109>>
s_high == <<104, 105, 103, 104>>
s_COOL == <<67, 79, 79, 76>>
s_Dry == <<68, 114, 121>>
s_HIGH == <<72, 73, 71, 72>>
s_turbo == <<116, 117, 114, 98, 111>>
s_max == <<109, 97, 120>>
s_empty == <<>>

\* str.lower() on ASCII text: 'A'..'Z' (65..90) become 'a'..'z'.
Lower(s) == [i \in 1..Len(s) |-> IF s[i] >= 65 /\ s[i] <= 90 THEN s[i] + 32 ELSE s[i]]

\* The dictionaries of set_mode and set_fan_speed.
modes == (s_cool :> 48) @@ (s_heat :> 49) @@ (s_fan :> 50) @@ (s_dry :> 51) @@ (s_auto :> 52)

speeds == (s_low :> 64) @@ (s_medium :> 65) @@ (s_high :> 66) @@ (s_auto :> 67)

\* Faulty variant: the mapping starts one degree early.
TempCommand_OffByOne(temp) == TempBase + (temp - 15)

\* command = 0x10 + (temp - 16)
TempCommand(temp) == TempBase + (temp - 16)

\* Faulty variant: the lower edge one degree too low.
TempInRange_Loose(temp) == TempMin - 1 <= temp /\ temp <= TempMax

\* 16 <= temp <= 30
TempInRange(temp) == TempMin <= temp /\ temp <= TempMax

(***************************************************************************)
(* The NEC frame, as send_nec_command builds it.                           *)
(***************************************************************************)
\* Faulty variant: the bits taken from the top, (byte >> (7 - i)) & 1.
Bit_MsbFirst(byte, i) == (byte \div (2 ^ (7 - i))) % 2

\* (byte >> i) & 1
Bit(byte, i) == (byte \div (2 ^ i)) % 2

\* one_space if (byte >> i) & 1 else zero_space
BitSpace(byte, i) == IF Bit(byte, i) = 1 THEN one_space ELSE zero_space

\* Faulty variant: the inverted field written like the plain one.
InvBitSpace_Plain(byte, i) == IF Bit(byte, i) = 1 THEN one_space ELSE zero_space

\* zero_space if (byte >> i) & 1 else one_space
InvBitSpace(byte, i) == IF Bit(byte, i) = 1 THEN zero_space ELSE one_space

\* for i in range(8): pulses.append(bit_mark); pulses.append(<space of bit i>)
RECURSIVE FieldLoop(_, _, _)
FieldLoop(p, byte, i) ==
    IF i >= NBits THEN p
    ELSE FieldLoop(p \o <<bit_mark, BitSpace(byte, i)>>, byte, i + 1)

RECURSIVE InvFieldLoop(_, _, _)
InvFieldLoop(p, byte, i) ==
    IF i >= NBits THEN p
    ELSE InvFieldLoop(p \o <<bit_mark, InvBitSpace(byte, i)>>, byte, i + 1)

\* pulses = [header_mark, header_space]: a new list
NewPulses == <<header_mark, header_space>>

\* The whole list send_nec_command builds for (a, c).
NecFrame(a, c) ==
    Append(InvFieldLoop(FieldLoop(InvFieldLoop(FieldLoop(NewPulses, a, 0), a, 0), c, 0), c, 0),
           bit_mark)

\* 1 << self.gpio_pin
PinMask == 2 ^ gpio_pin

\* The list comprehension of send_raw_code: entry i (0-based) of the pulse
\* list becomes pigpio.pulse(mask, 0, d) when i is even, pulse(0, mask, d)
\* when i is odd.  Sequences are 1-based, so list index i is position i + 1.
\* Faulty variant: marks and spaces exchanged (i % 2 == 1 drives the pin on).
WavePulse_Swapped(p, k) ==
    IF (k - 1) % 2 = 1
    THEN [gpio_on |-> PinMask, gpio_off |-> 0, delay |-> p[k]]
    ELSE [gpio_on |-> 0, gpio_off |-> PinMask, delay |-> p[k]]

WavePulse(p, k) ==
    IF (k - 1) % 2 = 0
    THEN [gpio_on |-> PinMask, gpio_off |-> 0, delay |-> p[k]]
    ELSE [gpio_on |-> 0, gpio_off |-> PinMask, delay |-> p[k]]

WaveOf(p) == [k \in 1..Len(p) |-> WavePulse(p, k)]

NoOp == [fn |-> "none", temp |-> 0, str |-> s_empty]

PwmOff == [freq |-> 0, duty |-> 0]

\* ACController.__init__ has connected to the daemon; nothing was sent yet.
Init ==
    /\ pc = "idle"
    /\ op = NoOp
    /\ printed = "none"
    /\ outcome = "none"
    /\ address = 0
    /\ command = 0
    /\ pulses = <<>>
    /\ wave_id = 0
    /\ pwm = PwmOff
    /\ waveBuf = <<>>
    /\ waves = {}
    /\ txBusy = FALSE
    /\ txWave = <<>>
    /\ hwlog = <<>>
    /\ prev = <<>>

\* send_nec_command(a, c) called directly with any two bytes.
InitFrame ==
    /\ pc = "hdr"
    /\ op = [fn |-> "send_nec_command", temp |-> 0, str |-> s_empty]
    /\ printed = "none"
    /\ outcome = "running"
    /\ address \in 0..ByteMax
    /\ command \in 0..ByteMax
    /\ pulses = <<>>
    /\ wave_id = 0
    /\ pwm = PwmOff
    /\ waveBuf = <<>>
    /\ waves = {}
    /\ txBusy = FALSE
    /\ txWave = <<>>
    /\ hwlog = <<>>
    /\ prev = <<>>

(***************************************************************************)
(* send_nec_command: building the pulse list.                              *)
(***************************************************************************)
\* pulses = [header_mark, header_space]
BuildHeader ==
    /\ pc = "hdr"
    /\ pulses' = NewPulses
    /\ pc' = "addr"
    /\ UNCHANGED <<op, printed, outcome, address, command, wave_id, prev>>
    /\ UNCHANGED hwvars

AddressBits ==
    /\ pc = "addr"
    /\ pulses' = FieldLoop(pulses, address, 0)
    /\ pc' = "naddr"
    /\ UNCHANGED <<op, printed, outcome, address, command, wave_id, prev>>
    /\ UNCHANGED hwvars

InvAddressBits ==
    /\ pc = "naddr"
    /\ pulses' = InvFieldLoop(pulses, address, 0)
    /\ pc' = "cmd"
    /\ UNCHANGED <<op, printed, outcome, address, command, wave_id, prev>>
    /\ UNCHANGED hwvars

CommandBits ==
    /\ pc = "cmd"
    /\ pulses' = FieldLoop(pulses, command, 0)
    /\ pc' = "ncmd"
    /\ UNCHANGED <<op, printed, outcome, address, command, wave_id, prev>>
    /\ UNCHANGED hwvars

InvCommandBits ==
    /\ pc = "ncmd"
    /\ pulses' = InvFieldLoop(pulses, command, 0)
    /\ pc' = "stop"
    /\ UNCHANGED <<op, printed, outcome, address, command, wave_id, prev>>
    /\ UNCHANGED hwvars

\* pulses.append(bit_mark)
StopBit ==
    /\ pc = "stop"
    /\ pulses' = Append(pulses, bit_mark)
    /\ pc' = "pwm_on"
    /\ UNCHANGED <<op, printed, outcome, address, command, wave_id, prev>>
    /\ UNCHANGED hwvars

(***************************************************************************)
(* send_nec_command: carrier on, send_raw_code, carrier off.  Each action  *)
(* below is a pigpio call that succeeds; HardwareError is the call failing.*)
(***************************************************************************)
\* The thread leaves send_raw_code and send_nec_command (by return or by an
\* exception): the pulse list is gone.  wave_id keeps what wave_create
\* returned last, for the record of how the command went.
Leave ==
    /\ pulses' = <<>>
    /\ UNCHANGED <<address, command, wave_id>>

PwmCall(freq, duty, ok) ==
    [call |-> "hardware_PWM", x |-> gpio_pin, y |-> freq, z |-> duty, ok |-> ok]

SendCall(id, ok) ==
    [call |-> "wave_send_once", x |-> id, y |-> 0, z |-> 0, ok |-> ok]

\* self.pi.hardware_PWM(self.gpio_pin, self.carrier_freq, 500000)
CarrierOn ==
    /\ pc = "pwm_on"
    /\ pwm' = [freq |-> carrier_freq, duty |-> duty_cycle]
    /\ hwlog' = Append(hwlog, PwmCall(carrier_freq, duty_cycle, TRUE))
    /\ pc' = "wave_clear"
    /\ UNCHANGED <<op, printed, outcome, prev, waveBuf, waves, txBusy, txWave>>
    /\ UNCHANGED locals

\* self.pi.wave_clear(): every waveform and every added pulse is dropped.
\* Faulty variant: the buffer is not cleared.
ClearedBuf_Kept == waveBuf

ClearedBuf == <<>>

WaveClear ==
    /\ pc = "wave_clear"
    /\ waveBuf' = ClearedBuf
    /\ waves' = {}
    /\ pc' = "wave_add"
    /\ UNCHANGED <<op, printed, outcome, prev, pwm, txBusy, txWave, hwlog>>
    /\ UNCHANGED locals

\* self.pi.wave_add_generic([...]): the pulses are added to the daemon's
\* buffer.  prev keeps what the previous command handed over until this
\* step, then what this one does.
WaveAddGeneric ==
    /\ pc = "wave_add"
    /\ waveBuf' = waveBuf \o WaveOf(pulses)
    /\ prev' = <<[op |-> op, address |-> address, command |-> command,
                  pulses |-> pulses, wave |-> waveBuf']>>
    /\ pc' = "wave_create"
    /\ UNCHANGED <<op, printed, outcome, pwm, waves, txBusy, txWave, hwlog>>
    /\ UNCHANGED locals

\* The lowest id no waveform has.
FreeId == CHOOSE n \in 0..Cardinality(waves) : \A w \in waves : w.id # n

\* wave_id = self.pi.wave_create(); if wave_id >= 0: ...
\* The daemon either makes a waveform of the added pulses and returns its
\* id, or returns a negative error code and makes none.
WaveCreate ==
    /\ pc = "wave_create"
    /\ \/ /\ wave_id' = FreeId
          /\ waves' = waves \cup {[id |-> FreeId, wave |-> waveBuf]}
          /\ waveBuf' = <<>>
          /\ pc' = "wave_send"
       \/ /\ \E e \in {-1, -70} : wave_id' = e
          /\ UNCHANGED <<waves, waveBuf>>
          /\ pc' = "pwm_off"
    /\ UNCHANGED <<op, printed, outcome, prev, pwm, txBusy, txWave, hwlog>>
    /\ UNCHANGED <<address, command, pulses>>

\* self.pi.wave_send_once(wave_id)
WaveSendOnce ==
    /\ pc = "wave_send"
    /\ \E w \in waves :
          /\ w.id = wave_id
          /\ txWave' = w.wave
    /\ txBusy' = TRUE
    /\ hwlog' = Append(hwlog, SendCall(wave_id, TRUE))
    /\ pc' = "tx_busy"
    /\ UNCHANGED <<op, printed, outcome, prev, pwm, waveBuf, waves>>
    /\ UNCHANGED locals

\* while self.pi.wave_tx_busy():
TxBusyPoll ==
    /\ pc = "tx_busy"
    /\ pc' = IF txBusy THEN "sleep" ELSE "wave_delete"
    /\ UNCHANGED <<op, printed, outcome, prev>>
    /\ UNCHANGED hwvars
    /\ UNCHANGED locals

\* time.sleep(0.01)
Sleep ==
    /\ pc = "sleep"
    /\ pc' = "tx_busy"
    /\ UNCHANGED <<op, printed, outcome, prev>>
    /\ UNCHANGED hwvars
    /\ UNCHANGED locals

\* self.pi.wave_delete(wave_id), then send_raw_code returns.
WaveDelete ==
    /\ pc = "wave_delete"
    /\ waves' = {w \in waves : w.id # wave_id}
    /\ pc' = "pwm_off"
    /\ UNCHANGED <<op, printed, outcome, prev, pwm, waveBuf, txBusy, txWave, hwlog>>
    /\ UNCHANGED locals

\* self.pi.hardware_PWM(self.gpio_pin, 0, 0), then send_nec_command and the
\* operation that called it return.
CarrierOff ==
    /\ pc = "pwm_off"
    /\ pwm' = PwmOff
    /\ hwlog' = Append(hwlog, PwmCall(0, 0, TRUE))
    /\ pc' = "idle"
    /\ outcome' = "returned"
    /\ Leave
    /\ UNCHANGED <<op, printed, prev, waveBuf, waves, txBusy, txWave>>

\* The places where the thread is about to make a pigpio call.
HwCallPcs == {"pwm_on", "wave_clear", "wave_add", "wave_create", "wave_send",
              "tx_busy", "wave_delete", "pwm_off"}

\* The call at pc as a transmitter-level attempt that failed (carrier and
\* transmission calls only).
FailedAttempt ==
    IF pc = "pwm_on" THEN <<PwmCall(carrier_freq, duty_cycle, FALSE)>>
    ELSE IF pc = "pwm_off" THEN <<PwmCall(0, 0, FALSE)>>
    ELSE IF pc = "wave_send" THEN <<SendCall(wave_id, FALSE)>>
    ELSE <<>>

\* A pigpio call raises pigpio.error.  Nothing in ACController catches it:
\* it leaves send_raw_code, send_nec_command and the operation at once.
HardwareError ==
    /\ pc \in HwCallPcs
    /\ hwlog' = hwlog \o FailedAttempt
    /\ pc' = "idle"
    /\ outcome' = "pigpio.error"
    /\ Leave
    /\ UNCHANGED <<op, printed, prev, pwm, waveBuf, waves, txBusy, txWave>>

\* Ctrl+C while a command runs: KeyboardInterrupt leaves the operation at
\* once; the script's handler then goes on to call power_off.
KeyboardInterrupt ==
    /\ pc \notin {"idle", "stopped"}
    /\ pc' = "idle"
    /\ outcome' = "KeyboardInterrupt"
    /\ Leave
    /\ UNCHANGED <<op, printed, prev>>
    /\ UNCHANGED hwvars

\* The daemon finishes transmitting the waveform.
TxDone ==
    /\ txBusy
    /\ txBusy' = FALSE
    /\ UNCHANGED <<pc, op, printed, outcome, prev, pwm, waveBuf, waves, txWave, hwlog>>
    /\ UNCHANGED locals

(***************************************************************************)
(* The intent operations.                                                  *)
(***************************************************************************)
\* self.send_nec_command(a, c) is entered; its locals are assigned later.
\* hwlog and txWave start to record this command.
Call(a, c) ==
    /\ address' = a
    /\ command' = c
    /\ hwlog' = <<>>
    /\ txWave' = <<>>
    /\ pc' = "hdr"
    /\ outcome' = "running"
    /\ UNCHANGED <<pulses, wave_id, prev, pwm, waveBuf, waves, txBusy>>

\* print(<rejection>); return
Reject(msg) ==
    /\ printed' = msg
    /\ pc' = "idle"
    /\ outcome' = "returned"
    /\ UNCHANGED prev
    /\ UNCHANGED hwvars
    /\ UNCHANGED locals

power_on ==
    /\ pc = "idle"
    /\ op' = [fn |-> "power_on", temp |-> 0, str |-> s_empty]
    /\ printed' = "Sending Power ON command..."
    /\ Call(DeviceAddress, PowerOnCode)

power_off ==
    /\ pc = "idle"
    /\ op' = [fn |-> "power_off", temp |-> 0, str |-> s_empty]
    /\ printed' = "Sending Power OFF command..."
    /\ Call(DeviceAddress, PowerOffCode)

set_temperature(T) ==
    /\ pc = "idle"
    /\ \E temp \in T :
          /\ op' = [fn |-> "set_temperature", temp |-> temp, str |-> s_empty]
          /\ IF ~TempInRange(temp)
             THEN Reject("Temperature out of range")
             ELSE /\ printed' = "Setting temperature"
                  /\ Call(DeviceAddress, TempCommand(temp))

set_mode(M) ==
    /\ pc = "idle"
    /\ \E mode \in M :
          /\ op' = [fn |-> "set_mode", temp |-> 0, str |-> mode]
          /\ IF Lower(mode) \notin DOMAIN modes
             THEN Reject("Invalid mode")
             ELSE /\ printed' = "Setting mode"
                  /\ Call(DeviceAddress, modes[Lower(mode)])

set_fan_speed(S) ==
    /\ pc = "idle"
    /\ \E speed \in S :
          /\ op' = [fn |-> "set_fan_speed", temp |-> 0, str |-> speed]
          /\ IF Lower(speed) \notin DOMAIN speeds
             THEN Reject("Invalid speed")
             ELSE /\ printed' = "Setting fan speed"
                  /\ Call(DeviceAddress, speeds[Lower(speed)])

\* self.pi.stop(): the connection is closed; no operation follows.
cleanup ==
    /\ pc = "idle"
    /\ pc' = "stopped"
    /\ UNCHANGED <<op, printed, outcome, prev>>
    /\ UNCHANGED hwvars
    /\ UNCHANGED locals

(***************************************************************************)
(* Specifications.                                                         *)
(***************************************************************************)
\* The inputs of Spec: the edges of the temperature range and the value the
\* script sets, and valid, differently-cased and invalid names.
EdgeTemps == {TempMin - 1, TempMin, 24, TempMax, TempMax + 1}

EdgeModes == {s_cool, s_COOL, s_auto, s_turbo}

EdgeSpeeds == {s_medium, s_auto, s_max}

\* Any caller: any operation after any other, however the last one ended,
\* with the daemon failing and the user interrupting at any point.
Next ==
    \/ power_on
    \/ power_off
    \/ set_temperature(EdgeTemps)
    \/ set_mode(EdgeModes)
    \/ set_fan_speed(EdgeSpeeds)
    \/ cleanup
    \/ BuildHeader
    \/ AddressBits
    \/ InvAddressBits
    \/ CommandBits
    \/ InvCommandBits
    \/ StopBit
    \/ CarrierOn
    \/ WaveClear
    \/ WaveAddGeneric
    \/ WaveCreate
    \/ WaveSendOnce
    \/ TxBusyPoll
    \/ Sleep
    \/ WaveDelete
    \/ CarrierOff
    \/ HardwareError
    \/ KeyboardInterrupt
    \/ TxDone

Spec == Init /\ [][Next]_vars

\* The inputs of SpecIntent: every temperature within TempMargin of the
\* range, every key of both dictionaries and some other names.
Temps == (TempMin - TempMargin)..(TempMax + TempMargin)

ModeInputs == {s_cool, s_heat, s_fan, s_dry, s_auto, s_COOL, s_Dry, s_turbo, s_low, s_empty}

SpeedInputs == {s_low, s_medium, s_high, s_auto, s_HIGH, s_max, s_cool, s_empty}

\* Every intent, any number of commands, with no pigpio call raising and no
\* interrupt.
NextIntent ==
    \/ power_on
    \/ power_off
    \/ set_temperature(Temps)
    \/ set_mode(ModeInputs)
    \/ set_fan_speed(SpeedInputs)
    \/ BuildHeader
    \/ AddressBits
    \/ InvAddressBits
    \/ CommandBits
    \/ InvCommandBits
    \/ StopBit
    \/ CarrierOn
    \/ WaveClear
    \/ WaveAddGeneric
    \/ WaveCreate
    \/ WaveSendOnce
    \/ TxBusyPoll
    \/ Sleep
    \/ WaveDelete
    \/ CarrierOff
    \/ TxDone

SpecIntent == Init /\ [][NextIntent]_vars

\* send_nec_command(a, c) for every pair of bytes, up to the waveform
\* handed to the daemon.
NextFrame ==
    \/ BuildHeader
    \/ AddressBits
    \/ InvAddressBits
    \/ CommandBits
    \/ InvCommandBits
    \/ StopBit
    \/ CarrierOn
    \/ WaveClear
    \/ WaveAddGeneric

SpecFrame == InitFrame /\ [][NextFrame]_vars

(***************************************************************************)
(* The claims.                                                             *)
(***************************************************************************)
\* The places where send_nec_command's pulse list is complete.
FrameDone == pc \in {"pwm_on", "wave_clear", "wave_add", "wave_create"}

\* Bit k of byte b.
BitOf(b, k) == (b \div (2 ^ k)) % 2

\* The pulse pair at list indices i, i + 1 (0-based) is the NEC code of bit v.
PairIs(p, i, v) ==
    /\ p[i + 1] = 560
    /\ p[i + 2] = IF v = 1 THEN 1690 ELSE 560

\* The 8 pairs from list index i (0-based) on carry byte b, bit 0 first.
FieldCarries(p, i, b) == \A k \in 0..7 : PairIs(p, i + 2 * k, BitOf(b, k))

\* C1: for every address and command in 0..255 the frame is 9000, 4500, then
\* the fields address, inverted address, command, inverted command, then a
\* final 560; in each field pair k is (560, 1690) when bit k of the byte is 1
\* and (560, 560) when it is 0, bit 0 first (0x01 starts with (560, 1690),
\* 0x80 with (560, 560)).
C1_FrameLayout ==
    FrameDone =>
        /\ Len(pulses) = 67
        /\ pulses[1] = 9000
        /\ pulses[2] = 4500
        /\ FieldCarries(pulses, 2, address)
        /\ FieldCarries(pulses, 18, 255 - address)
        /\ FieldCarries(pulses, 34, command)
        /\ FieldCarries(pulses, 50, 255 - command)
        /\ pulses[67] = 560
        /\ (address = 1 => pulses[3] = 560 /\ pulses[4] = 1690)
        /\ (address = 128 => pulses[3] = 560 /\ pulses[4] = 560)

C1_Witness ==
    /\ pc = "pwm_on"
    /\ address = 128
    /\ command = 1
    /\ pulses[4] = 560
    /\ pulses[18] = 1690
    /\ pulses[36] = 1690

\* The byte the 8 pairs from list index i (0-based) decode to: a 1690 space
\* is bit 1, a 560 space is bit 0, the first pair is bit 0.
RECURSIVE Decode(_, _, _)
Decode(p, i, k) ==
    IF k = 8 THEN 0
    ELSE (IF p[i + 2 * k + 2] = 1690 THEN 2 ^ k ELSE 0) + Decode(p, i, k + 1)

\* Every space of the 8 pairs from list index i is v.
AllSpaces(p, i, v) == \A k \in 0..7 : p[i + 2 * k + 1] = 560 /\ p[i + 2 * k + 2] = v

\* C2: decoding an inverted field gives the one's complement (255 - b) of the
\* byte, decoding the plain field gives the byte; for address 0x00 the
\* address section is all (560, 560) and the inverted one all (560, 1690).
C2_Complement ==
    FrameDone =>
        /\ \A k \in 3..66 : k % 2 = 0 => pulses[k] \in {560, 1690}
        /\ Decode(pulses, 2, 0) = address
        /\ Decode(pulses, 18, 0) = 255 - address
        /\ Decode(pulses, 34, 0) = command
        /\ Decode(pulses, 50, 0) = 255 - command
        /\ (address = 0 => AllSpaces(pulses, 2, 560) /\ AllSpaces(pulses, 18, 1690))

C2_Witness ==
    /\ pc = "pwm_on"
    /\ address = 0
    /\ command = 48
    /\ Decode(pulses, 18, 0) = 255
    /\ Decode(pulses, 50, 0) = 207

\* C3: the list has 67 entries; every even index (0-based) is a mark (9000 at
\* index 0, 560 elsewhere) that send_raw_code drives as pin-on, every odd
\* index a space (4500 at index 1, else 560 or 1690) driven as pin-off; the
\* first and the last entries are marks.
C3_MarkSpace ==
    /\ FrameDone => Len(pulses) = 67
    /\ pc = "wave_create" =>
          /\ Len(waveBuf) = 67
          /\ \A i \in 0..66 :
                IF i % 2 = 0
                THEN /\ waveBuf[i + 1].gpio_on = 131072
                     /\ waveBuf[i + 1].gpio_off = 0
                     /\ waveBuf[i + 1].delay = pulses[i + 1]
                     /\ pulses[i + 1] = IF i = 0 THEN 9000 ELSE 560
                ELSE /\ waveBuf[i + 1].gpio_on = 0
                     /\ waveBuf[i + 1].gpio_off = 131072
                     /\ waveBuf[i + 1].delay = pulses[i + 1]
                     /\ IF i = 1 THEN pulses[i + 1] = 4500
                        ELSE pulses[i + 1] \in {560, 1690}
          /\ waveBuf[1].gpio_on = 131072
          /\ waveBuf[67].gpio_on = 131072

C3_Witness ==
    /\ pc = "wave_create"
    /\ address = 255
    /\ command = 170
    /\ Len(waveBuf) = 67
    /\ waveBuf[67].gpio_on = 131072
    /\ waveBuf[4].delay = 1690

\* The command has passed validation: send_nec_command was entered.
Accepted == op.fn # "none" /\ printed \in {"Sending Power ON command...",
    "Sending Power OFF command...", "Setting temperature", "Setting mode",
    "Setting fan speed"}

\* C4: every intent maps to address 0x00 and the tabulated command: power on
\* 0x08, off 0x09; Cool/Heat/Fan/Dry/Auto 0x30..0x34; fan Low/Medium/High/Auto
\* 0x40..0x43; temperature t in 16..30 gives 0x10 + (t - 16), within
\* 0x10..0x1E; every command fits in 8 bits.
C4_IntentTable ==
    Accepted =>
        /\ address = 0
        /\ command \in 0..255
        /\ (op.fn = "power_on" => command = 8)
        /\ (op.fn = "power_off" => command = 9)
        /\ (op.fn = "set_mode" =>
              /\ (op.str = s_cool => command = 48)
              /\ (op.str = s_heat => command = 49)
              /\ (op.str = s_fan => command = 50)
              /\ (op.str = s_dry => command = 51)
              /\ (op.str = s_auto => command = 52))
        /\ (op.fn = "set_fan_speed" =>
              /\ (op.str = s_low => command = 64)
              /\ (op.str = s_medium => command = 65)
              /\ (op.str = s_high => command = 66)
              /\ (op.str = s_auto => command = 67))
        /\ (op.fn = "set_temperature" =>
              /\ op.temp \in 16..30
              /\ command = 16 + (op.temp - 16)
              /\ command \in 16..30
              /\ (op.temp = 16 => command = 16)
              /\ (op.temp = 30 => command = 30))

C4_Witness ==
    /\ pc = "idle"
    /\ outcome = "returned"
    /\ op.fn = "set_temperature"
    /\ op.temp = 30
    /\ printed = "Setting temperature"
    /\ command = 30

\* The call just made is a rejected one: a temperature outside 16..30, or a
\* mode or speed name (in any letter case) outside the recognised ones.
InvalidCall(o) ==
    \/ o.fn = "set_temperature" /\ (o.temp < 16 \/ o.temp > 30)
    \/ o.fn = "set_mode" /\ Lower(o.str) \notin {s_cool, s_heat, s_fan, s_dry, s_auto}
    \/ o.fn = "set_fan_speed" /\ Lower(o.str) \notin {s_low, s_medium, s_high, s_auto}

\* The report of a rejected call.
RejectionOf(o) ==
    IF o.fn = "set_temperature" THEN "Temperature out of range"
    ELSE IF o.fn = "set_mode" THEN "Invalid mode"
    ELSE "Invalid speed"

ActivationAttempted ==
    \E i \in 1..Len(hwlog) : hwlog[i].call = "hardware_PWM" /\ hwlog[i].y = 38000

\* C6: carrier activation is released on every exit path: when a command
\* that has activated the carrier (or attempted to) ends in a hardware error,
\* carrier deactivation, hardware_PWM(pin, 0, 0), was attempted before the
\* error propagated.
C6_CarrierReleased ==
    (pc = "idle" /\ outcome = "pigpio.error" /\ ActivationAttempted) =>
        /\ hwlog[Len(hwlog)].call = "hardware_PWM"
        /\ hwlog[Len(hwlog)].y = 0

\* C7: transmission is blocking and commands never interleave: the carrier is
\* never about to be deactivated while a frame is being sent, and a command
\* comes to activate the carrier only after the frame of the command before
\* it is fully sent and its carrier deactivated.
C7_NoInterleave ==
    /\ pc = "pwm_off" => ~txBusy
    /\ pc = "wave_delete" => ~txBusy
    /\ pc = "pwm_on" => (~txBusy /\ pwm.freq = 0)

\* The command's frame was handed to the transmitter and sent.
FrameSent ==
    \E i \in 1..Len(hwlog) : hwlog[i].call = "wave_send_once" /\ hwlog[i].ok

\* C8: a failed transmission is surfaced to the caller: a command that passed
\* validation and ended without its frame being sent (wave_create returning a
\* negative id included) does not end like a successful one.
C8_FailureSurfaced ==
    (pc = "idle" /\ Accepted /\ outcome # "running" /\ ~FrameSent) =>
        outcome # "returned"

\* The command succeeded: it passed validation, the daemon made the waveform
\* and the operation returned.
Succeeded == pc = "idle" /\ Accepted /\ outcome = "returned" /\ wave_id >= 0

\* C9: on every successful command the transmitter sees exactly three steps
\* in order: carrier on at 38000 Hz and 50% duty on the pin, one transmission
\* of the 67-entry frame of the command's (address, command), carrier off
\* (frequency 0); the carrier is on while the frame is sent and off when the
\* command returns.
C9_ThreeSteps ==
    /\ Succeeded =>
          /\ Len(hwlog) = 3
          /\ hwlog[1] = [call |-> "hardware_PWM", x |-> 17, y |-> 38000,
                         z |-> 500000, ok |-> TRUE]
          /\ hwlog[2] = [call |-> "wave_send_once", x |-> wave_id, y |-> 0,
                         z |-> 0, ok |-> TRUE]
          /\ hwlog[3] = [call |-> "hardware_PWM", x |-> 17, y |-> 0, z |-> 0,
                         ok |-> TRUE]
          /\ Len(txWave) = 67
          /\ txWave = WaveOf(NecFrame(address, command))
          /\ pwm.freq = 0
    /\ pc \in {"tx_busy", "sleep", "wave_delete"} =>
          /\ pwm.freq = 38000
          /\ pwm.duty = 500000
          /\ txWave = WaveOf(pulses)

C9_Witness ==
    /\ Succeeded
    /\ op.fn = "set_mode"
    /\ command = 48
    /\ Len(hwlog) = 3
    /\ txWave[20].delay = 1690

\* C10: encoding is stateless: whatever commands came before (sent, failed,
\* interrupted or rejected), a command with the same intent, or with the same
\* (address, command), as the latest one that handed a frame over hands over
\* the same pulse list and the same waveform, entry for entry.
C10_Idempotent ==
    [][(/\ pc = "wave_add"
        /\ pc' = "wave_create"
        /\ prev # <<>>
        /\ \/ prev[1].op = op
           \/ prev[1].address = address /\ prev[1].command = command)
       => (/\ pulses = prev[1].pulses
           /\ waveBuf' = prev[1].wave)]_vars

\* The same intent as before, its list rebuilt and about to be handed over,
\* after the earlier command ended in a failure that left pulses behind.
C10_Witness ==
    /\ pc = "wave_add"
    /\ prev # <<>>
    /\ prev[1].op = op
    /\ op.fn = "set_temperature"
    /\ pulses = prev[1].pulses
    /\ wave_id < 0

====
